---- MODULE Spec2Model ----
(***************************************************************************)
(* Model of neurobooth_analysis_tools/data/database.py:                    *)
(*   DatabaseConnection.wait_for_refresh, download_tables, download,       *)
(*   get_test_subjects and the module function fuzzy_join_date.            *)
(*                                                                         *)
(* A nullable value is a sequence: <<>> is null (None / NaN / NaT / NA),   *)
(* <<v>> is the value v.                                                   *)
(***************************************************************************)
EXTENDS Integers, Sequences, FiniteSets, TLC

\* ------------------------------------------------------------------ bounds
MaxMissing == 2        \* at most this many tables are absent from the store at once
MaxPollsArg == 2       \* largest max_polls passed to a direct wait_for_refresh call
NumContents == 3       \* number of distinct data snapshots the store can hold
MaxLeft == 2           \* rows of the left table given to fuzzy_join_date
MaxRight == 3          \* rows of the right table given to fuzzy_join_date
MaxDate == 4           \* dates are the days 0..MaxDate
MaxSubjectId == 2      \* subject ids are 1..MaxSubjectId
MaxConsentRows == 2    \* rows of the consent table given to the test-subject query
MaxRebuildSteps == 2   \* store changes that can fall inside one call

\* ------------------------------------------------------- program constants
DefaultMaxPolls == 6

Null == <<>>
Some(v) == <<v>>

ConsentTable == "rc_participant_and_consent_information"

\* table names passed by download() to download_tables(), in call order
DownloadTableNames ==
  << "subject", "rc_visit_dates", "rc_demographic_clean", "rc_clinical_clean",
     "rc_ataxia_pd_scales_clean", "rc_visual_activities_questionnaire",
     "rc_prom_ataxia" >>

\* the tables the test-subject query reads (FROM subject, LEFT JOIN consent)
QueryTables == {"subject", ConsentTable}

Range(s) == {s[i] : i \in 1..Len(s)}

AllTables == Range(DownloadTableNames) \cup {ConsentTable}

\* table_names arguments tried for a direct wait_for_refresh call
WaitArgs ==
  { <<>>, <<"subject">>, <<"subject", "rc_visit_dates">>,
    <<"rc_visit_dates", ConsentTable>> }

\* the cached result tables of a DatabaseConnection; 0 is None, c >= 1 is the
\* table as built from data snapshot c of the store
CacheNone ==
  [subject |-> 0, session |-> 0, demographic |-> 0, clinical |-> 0,
   scales |-> 0, prom_vaq |-> 0, prom_ataxia |-> 0]

NoException == [type |-> "none", tables |-> <<>>, max_polls |-> 0]

VARIABLES
  store,          \* set of table names that exist in the backing store
  content,        \* data snapshot the store currently holds, 1..NumContents
  cache,          \* subject .. prom_ataxia attributes of the connection
  test_subjects,  \* the test_subjects attribute: Null or Some(array)
  op,             \* public method being executed, "none" when idle
  pc,             \* position inside the method
  table_names,    \* argument of the running wait_for_refresh
  max_polls,      \* argument of the running wait_for_refresh
  use_cache,      \* argument of the running get_test_subjects
  rounds,         \* existence-check rounds done by the running wait_for_refresh
  sleeps,         \* sleeps done by the running wait_for_refresh
  idx,            \* next table to look up in the running round, then to read
  allJoinable,    \* every table read so far has the columns download() uses
  connects,       \* store connections opened by the running call
  readTables,     \* tables read so far by the running call
  observed,       \* tables a check round of the running call saw existing
  lastMissing,    \* named tables the last (or the running) check round saw missing
  midRebuildRead, \* a table was read while a named table was absent
  cacheAtCall,    \* cache when the running call started
  tsAtCall,       \* test_subjects when the running call started
  exc,            \* exception raised by the running call
  ret,            \* value returned by the running get_test_subjects
  queries,        \* test-subject queries run by the running call
  rebuilds,       \* store changes that happened during the running call
  left_df, right_df, how, joined,   \* fuzzy_join_date: arguments and result
  subjectRows, consentRows, found   \* test-subject query: tables and result

connVars == <<cache, test_subjects>>
storeVars == <<store, content>>
callVars == <<op, pc, table_names, max_polls, use_cache, rounds, sleeps, idx,
              allJoinable, connects, readTables, observed, lastMissing,
              midRebuildRead, cacheAtCall, tsAtCall, exc, ret, queries,
              rebuilds>>
joinVars == <<left_df, right_df, how, joined>>
queryVars == <<subjectRows, consentRows, found>>
vars == <<connVars, storeVars, callVars, joinVars, queryVars>>

\* ----------------------------------------------------------------- helpers
RECURSIVE Flatten(_)
Flatten(ss) == IF ss = <<>> THEN <<>> ELSE Head(ss) \o Flatten(Tail(ss))

RECURSIVE SortedSeq(_)
SortedSeq(S) ==
  IF S = {} THEN <<>>
  ELSE LET m == CHOOSE x \in S : \A y \in S : x <= y
       IN  <<m>> \o SortedSeq(S \ {m})

Abs(n) == IF n < 0 THEN -n ELSE n

\* --------------------------------------------- get_test_subjects: the query
\* A subject table is a sequence of subject ids; a consent table is a sequence
\* of rows [subject_id : nullable id, test_subject_boolean : "true"|"false"|"null"].

\* SQL three-valued OR
Or3(a, b) ==
  IF a = "true" \/ b = "true" THEN "true"
  ELSE IF a = "null" \/ b = "null" THEN "null"
  ELSE "false"

\* rows of  subject subj LEFT JOIN consent pci ON subj.subject_id = pci.subject_id
LeftJoinConsent(subj, pci) ==
  Flatten([i \in 1..Len(subj) |->
    LET m == SelectSeq(pci, LAMBDA r : r.subject_id = Some(subj[i]))
    IN  IF m = <<>>
        THEN << [subject_id |-> subj[i], pci_subject_id |-> Null,
                 test_subject_boolean |-> "null"] >>
        ELSE [j \in 1..Len(m) |->
               [subject_id |-> subj[i], pci_subject_id |-> m[j].subject_id,
                test_subject_boolean |-> m[j].test_subject_boolean]]])

WhereTestSubject_FlagOnly(r) == r.test_subject_boolean = "true"

\* WHERE pci.test_subject_boolean OR pci.subject_id IS NULL
WhereTestSubject(r) ==
  Or3(r.test_subject_boolean,
      IF r.pci_subject_id = Null THEN "true" ELSE "false") = "true"

\* SELECT DISTINCT subj.subject_id ... ORDER BY subj.subject_id
SelectDistinctOrdered(rows) == SortedSeq({rows[i].subject_id : i \in 1..Len(rows)})

\* .to_numpy(dtype='U').squeeze() of the one-column result: an (n,1) array
\* becomes 1-d of length n, except that a (1,1) array becomes 0-d
Squeeze(items) == [ndim |-> IF Len(items) = 1 THEN 0 ELSE 1, items |-> items]

TestSubjectQuery(subj, pci) ==
  Squeeze(SelectDistinctOrdered(SelectSeq(LeftJoinConsent(subj, pci), WhereTestSubject)))

\* the subject and consent tables of data snapshot c: every subject is in
\* subject, the subjects below c have a consent row that is not flagged
SnapshotSubjects(c) == [i \in 1..MaxSubjectId |-> i]

SnapshotConsent(c) ==
  LET n == IF c - 1 < MaxSubjectId THEN c - 1 ELSE MaxSubjectId
  IN  [i \in 1..n |-> [subject_id |-> Some(i), test_subject_boolean |-> "false"]]

\* ----------------------------------------------------------- fuzzy_join_date
\* A left row is [subject_id, redcap_event_name, date], a right row is
\* [subject_id, date, record_id]; subject_id and date are nullable.

\* pd.merge(left_df, right_df, on=hard_on, how=how) for how in {"left","inner"}:
\* left order is kept, null keys match each other, an unmatched left row is
\* kept by how="left" with null right columns
Merge(l, r, h) ==
  Flatten([i \in 1..Len(l) |->
    LET m == SelectSeq(r, LAMBDA x : x.subject_id = l[i].subject_id)
    IN  IF m = <<>>
        THEN IF h = "left"
             THEN << [subject_id |-> l[i].subject_id,
                      redcap_event_name |-> l[i].redcap_event_name,
                      left_date |-> l[i].date, right_date |-> Null,
                      record_id |-> Null] >>
             ELSE <<>>
        ELSE [j \in 1..Len(m) |->
               [subject_id |-> l[i].subject_id,
                redcap_event_name |-> l[i].redcap_event_name,
                left_date |-> l[i].date, right_date |-> m[j].date,
                record_id |-> Some(m[j].record_id)]]])

\* (right date - left date) / np.timedelta64(1, 'D'); null when either is null
OffsetDays(c) ==
  IF c.left_date = Null \/ c.right_date = Null THEN Null
  ELSE Some(c.right_date[1] - c.left_date[1])

\* groupby([*hard_on, fuzzy_on_left]) uses dropna=True: a row with a null key
\* belongs to no group
InGroup(c) == c.subject_id # Null /\ c.left_date # Null

SameGroup(c, d) ==
  /\ InGroup(c) /\ InGroup(d)
  /\ c.subject_id = d.subject_id /\ c.left_date = d.left_date

\* .abs() then groupby(...).rank(method='min', na_option='bottom') of row i;
\* null for a row that belongs to no group
Rank(cands, i) ==
  IF ~InGroup(cands[i]) THEN Null
  ELSE LET grp == {j \in 1..Len(cands) : SameGroup(cands[j], cands[i])}
           nonnull == {j \in grp : OffsetDays(cands[j]) # Null}
       IN  IF OffsetDays(cands[i]) = Null
           THEN Some(Cardinality(nonnull) + 1)
           ELSE Some(1 + Cardinality({j \in nonnull :
                   Abs(OffsetDays(cands[j])[1]) < Abs(OffsetDays(cands[i])[1])}))

FuzzyJoinDate(l, r, h) ==
  LET cands == Merge(l, r, h)
      kept == SelectSeq([i \in 1..Len(cands) |-> [row |-> cands[i], rank |-> Rank(cands, i)]],
                        LAMBDA x : x.rank = Some(1))
  IN  [i \in 1..Len(kept) |->
        [subject_id |-> kept[i].row.subject_id,
         redcap_event_name |-> kept[i].row.redcap_event_name,
         left_date |-> kept[i].row.left_date,
         right_date |-> kept[i].row.right_date,
         record_id |-> kept[i].row.record_id,
         Offset_Days |-> OffsetDays(kept[i].row)]]

\* ------------------------------------------------- the connection's methods
TypeOK ==
  /\ store \subseteq AllTables
  /\ content \in 1..NumContents
  /\ op \in {"none", "wait_for_refresh", "download", "get_test_subjects"}
  /\ pc \in {"idle", "poll", "sleep", "connect", "read", "join", "query", "done", "raised"}
  /\ rounds \in 0..DefaultMaxPolls /\ sleeps \in 0..DefaultMaxPolls

InitConnection ==
  /\ store = AllTables /\ content = 1
  /\ cache = CacheNone /\ test_subjects = Null
  /\ op = "none" /\ pc = "idle"
  /\ table_names = <<>> /\ max_polls = 0 /\ use_cache = TRUE
  /\ rounds = 0 /\ sleeps = 0 /\ idx = 1 /\ allJoinable = TRUE
  /\ connects = 0 /\ readTables = {} /\ observed = {} /\ lastMissing = {}
  /\ midRebuildRead = FALSE
  /\ cacheAtCall = CacheNone /\ tsAtCall = Null
  /\ exc = NoException /\ ret = Null /\ queries = 0 /\ rebuilds = 0

InitNoJoin == left_df = <<>> /\ right_df = <<>> /\ how = "left" /\ joined = Null

InitNoQuery == subjectRows = <<>> /\ consentRows = <<>> /\ found = Null

Init == InitConnection /\ InitNoJoin /\ InitNoQuery

\* entry of a public method: the per-call bookkeeping starts afresh
Enter(method, names, polls, uc, at) ==
  /\ pc = "idle"
  /\ op' = method /\ pc' = at
  /\ table_names' = names /\ max_polls' = polls /\ use_cache' = uc
  /\ rounds' = 0 /\ sleeps' = 0 /\ idx' = 1 /\ allJoinable' = TRUE
  /\ connects' = 0 /\ readTables' = {} /\ observed' = {} /\ lastMissing' = {}
  /\ midRebuildRead' = FALSE
  /\ cacheAtCall' = cache /\ tsAtCall' = test_subjects
  /\ exc' = NoException /\ queries' = 0 /\ rebuilds' = 0

\* wait_for_refresh(engine, *names, max_polls=polls) called directly
CallWaitForRefresh(names, polls) ==
  /\ Enter("wait_for_refresh", names, polls, TRUE, "poll")
  /\ ret' = Null
  /\ UNCHANGED <<connVars, storeVars, joinVars, queryVars>>

\* download(): download_tables(...) starts with wait_for_refresh on its names
CallDownload ==
  /\ Enter("download", DownloadTableNames, DefaultMaxPolls, TRUE, "poll")
  /\ ret' = Null
  /\ UNCHANGED <<connVars, storeVars, joinVars, queryVars>>

UseCached_IgnoreFlag(uc, ts) == ts # Null

\* if use_cache and self.test_subjects is not None
UseCached(uc, ts) == uc /\ ts # Null

CallGetTestSubjects_NoWait(uc) ==
  /\ IF UseCached(uc, test_subjects)
     THEN /\ Enter("get_test_subjects", <<>>, 0, uc, "done")
          /\ ret' = test_subjects
     ELSE /\ Enter("get_test_subjects", <<ConsentTable>>, DefaultMaxPolls, uc, "connect")
          /\ ret' = Null
  /\ UNCHANGED <<connVars, storeVars, joinVars, queryVars>>

\* get_test_subjects(use_cache=uc): the cached array is returned at once,
\* otherwise wait_for_refresh is called on the consent table alone
CallGetTestSubjects(uc) ==
  /\ IF UseCached(uc, test_subjects)
     THEN /\ Enter("get_test_subjects", <<>>, 0, uc, "done")
          /\ ret' = test_subjects
     ELSE /\ Enter("get_test_subjects", <<ConsentTable>>, DefaultMaxPolls, uc, "poll")
          /\ ret' = Null
  /\ UNCHANGED <<connVars, storeVars, joinVars, queryVars>>

\* where the caller continues when wait_for_refresh returns
AfterGuard(method) == IF method = "wait_for_refresh" THEN "done" ELSE "connect"

\* all([...]) of the has_table answers of one round, given the names answered False
AllExist(missing) == missing = {}

AfterCheck_Inverted(exists, method) == IF exists THEN "sleep" ELSE AfterGuard(method)

\* if exists: return / else: sleep(poll_interval_sec)
AfterCheck(exists, method) == IF exists THEN AfterGuard(method) ELSE "sleep"

\* inspection.has_table(table) for the next name of the list comprehension:
\* one query of the store per name, so the store can change between two of
\* them.  The answer to the last name completes the round and `exists` is
\* tested; with no names the round is complete at once (all([]) is True).
HasTable ==
  /\ pc = "poll" /\ rounds < max_polls
  /\ LET n == Len(table_names)
         before == IF idx = 1 THEN {} ELSE lastMissing
         seen == IF n = 0 THEN {} ELSE {table_names[idx]} \cap store
         missing == IF n = 0 THEN {} ELSE before \cup ({table_names[idx]} \ store)
     IN  /\ observed' = observed \cup seen
         /\ lastMissing' = missing
         /\ IF idx >= n
            THEN /\ rounds' = rounds + 1
                 /\ idx' = 1
                 /\ pc' = AfterCheck(AllExist(missing), op)
            ELSE /\ idx' = idx + 1
                 /\ UNCHANGED <<rounds, pc>>
  /\ UNCHANGED <<connVars, storeVars, joinVars, queryVars, op, table_names,
                 max_polls, use_cache, sleeps, allJoinable, connects,
                 readTables, midRebuildRead, cacheAtCall, tsAtCall, exc, ret,
                 queries, rebuilds>>

\* the else branch of the iteration
Sleep ==
  /\ pc = "sleep"
  /\ sleeps' = sleeps + 1
  /\ pc' = "poll"
  /\ UNCHANGED <<connVars, storeVars, joinVars, queryVars, op, table_names,
                 max_polls, use_cache, rounds, idx, allJoinable, connects,
                 readTables, observed, lastMissing, midRebuildRead,
                 cacheAtCall, tsAtCall, exc, ret, queries,
                 rebuilds>>

TimeoutTables_OnlyMissing(names, missing) == SelectSeq(names, LAMBDA t : t \in missing)

\* the text after "existence of: " in the exception: ', '.join(table_names)
TimeoutTables(names, missing) == names

\* the loop is exhausted: raise DatabaseException
RaiseTimeout ==
  /\ pc = "poll" /\ rounds >= max_polls
  /\ exc' = [type |-> "DatabaseException",
             tables |-> TimeoutTables(table_names, lastMissing),
             max_polls |-> max_polls]
  /\ pc' = "raised"
  /\ UNCHANGED <<connVars, storeVars, joinVars, queryVars, op, table_names,
                 max_polls, use_cache, rounds, sleeps, idx, allJoinable,
                 connects, readTables, observed, lastMissing, midRebuildRead,
                 cacheAtCall, tsAtCall, ret, queries,
                 rebuilds>>

\* with self.engine.connect() as connection
Connect ==
  /\ pc = "connect"
  /\ connects' = connects + 1
  /\ pc' = IF op = "download" THEN "read" ELSE "query"
  /\ UNCHANGED <<connVars, storeVars, joinVars, queryVars, op, table_names,
                 max_polls, use_cache, rounds, sleeps, idx, allJoinable,
                 readTables, observed, lastMissing, midRebuildRead,
                 cacheAtCall, tsAtCall, exc, ret, queries,
                 rebuilds>>

\* pd.read_sql_table(table_name, connection) for the next name; the table read
\* may or may not have the columns download() later selects and joins on
ReadTable ==
  /\ pc = "read"
  /\ LET t == table_names[idx] IN
       /\ readTables' = readTables \cup {t}
       /\ midRebuildRead' = (midRebuildRead \/ ~(Range(table_names) \subseteq store))
       /\ IF t \in store
          THEN /\ \E joinable \in BOOLEAN :
                    /\ (t = "subject") => joinable
                    /\ allJoinable' = (allJoinable /\ joinable)
               /\ idx' = idx + 1
               /\ pc' = IF idx = Len(table_names) THEN "join" ELSE "read"
               /\ exc' = exc
          ELSE /\ exc' = [type |-> "NoSuchTableError", tables |-> <<t>>, max_polls |-> 0]
               /\ pc' = "raised"
               /\ UNCHANGED <<idx, allJoinable>>
  /\ UNCHANGED <<connVars, storeVars, joinVars, queryVars, op, table_names,
                 max_polls, use_cache, rounds, sleeps, connects, observed,
                 lastMissing, cacheAtCall, tsAtCall, ret, queries,
                 rebuilds>>

\* the cache after the body of download() that follows download_tables():
\* subject and session are assigned first, the five joined tables only when
\* session_view and all five fuzzy joins were computed
AssignDownload(old, snapshot, joinsOk) ==
  IF joinsOk
  THEN [subject |-> snapshot, session |-> snapshot, demographic |-> snapshot,
        clinical |-> snapshot, scales |-> snapshot, prom_vaq |-> snapshot,
        prom_ataxia |-> snapshot]
  ELSE [old EXCEPT !.subject = snapshot, !.session = snapshot]

DownloadJoin ==
  /\ pc = "join"
  /\ cache' = AssignDownload(cache, content, allJoinable)
  /\ IF allJoinable
     THEN pc' = "done" /\ exc' = exc
     ELSE pc' = "raised" /\ exc' = [type |-> "KeyError", tables |-> <<>>, max_polls |-> 0]
  /\ UNCHANGED <<test_subjects, storeVars, joinVars, queryVars, op, table_names,
                 max_polls, use_cache, rounds, sleeps, idx, allJoinable,
                 connects, readTables, observed, lastMissing, midRebuildRead,
                 cacheAtCall, tsAtCall, ret, queries,
                 rebuilds>>

\* pd.read_sql(query, connection) ... and the assignment to self.test_subjects
Query ==
  /\ pc = "query"
  /\ queries' = queries + 1
  /\ readTables' = readTables \cup QueryTables
  /\ midRebuildRead' = (midRebuildRead \/ ~(QueryTables \subseteq store))
  /\ IF QueryTables \subseteq store
     THEN /\ test_subjects' = Some(TestSubjectQuery(SnapshotSubjects(content),
                                                    SnapshotConsent(content)))
          /\ ret' = test_subjects'
          /\ pc' = "done" /\ exc' = exc
     ELSE /\ exc' = [type |-> "ProgrammingError",
                     tables |-> <<"subject", ConsentTable>>, max_polls |-> 0]
          /\ pc' = "raised"
          /\ UNCHANGED <<test_subjects, ret>>
  /\ UNCHANGED <<cache, storeVars, joinVars, queryVars, op, table_names,
                 max_polls, use_cache, rounds, sleeps, idx, allJoinable,
                 connects, observed, lastMissing, cacheAtCall, tsAtCall,
                 rebuilds>>

\* the method has returned or raised; the caller goes on
Return ==
  /\ pc \in {"done", "raised"}
  /\ op' = "none" /\ pc' = "idle"
  /\ table_names' = <<>> /\ max_polls' = 0 /\ use_cache' = TRUE
  /\ rounds' = 0 /\ sleeps' = 0 /\ idx' = 1 /\ allJoinable' = TRUE
  /\ connects' = 0 /\ readTables' = {} /\ observed' = {} /\ lastMissing' = {}
  /\ midRebuildRead' = FALSE
  /\ cacheAtCall' = CacheNone /\ tsAtCall' = Null
  /\ exc' = NoException /\ ret' = Null /\ queries' = 0 /\ rebuilds' = 0
  /\ UNCHANGED <<connVars, storeVars, joinVars, queryVars>>

\* ------------------------------------------------------- the backing store
\* "The Neurobooth database is recreated on an hourly basis": tables vanish
\* and come back, and the data changes.  In Spec this happens between calls.
DropTable(t) ==
  /\ t \in store /\ Cardinality(AllTables \ store) < MaxMissing
  /\ store' = store \ {t}

CreateTable(t) ==
  /\ t \notin store
  /\ store' = store \cup {t}

Repopulate(c) ==
  /\ pc = "idle" /\ c # content
  /\ content' = c
  /\ UNCHANGED <<store, connVars, callVars, joinVars, queryVars>>

StoreChange ==
  /\ pc = "idle"
  /\ \E t \in AllTables : DropTable(t) \/ CreateTable(t)
  /\ UNCHANGED <<content, connVars, callVars, joinVars, queryVars>>

\* the rebuild running while a method of the connection is executing
RebuildStep ==
  /\ pc \notin {"idle", "done", "raised"} /\ rebuilds < MaxRebuildSteps
  /\ \E t \in AllTables : DropTable(t) \/ CreateTable(t)
  /\ rebuilds' = rebuilds + 1
  /\ UNCHANGED <<content, connVars, joinVars, queryVars, op, pc, table_names,
                 max_polls, use_cache, rounds, sleeps, idx, allJoinable,
                 connects, readTables, observed, lastMissing, midRebuildRead,
                 cacheAtCall, tsAtCall, exc, ret, queries>>

\* the steps of the connection's methods
NextCall ==
  \/ \E names \in WaitArgs, polls \in 0..MaxPollsArg : CallWaitForRefresh(names, polls)
  \/ CallDownload
  \/ \E uc \in BOOLEAN : CallGetTestSubjects(uc)
  \/ HasTable
  \/ Sleep
  \/ RaiseTimeout
  \/ Connect
  \/ ReadTable
  \/ DownloadJoin
  \/ Query
  \/ Return

\* the store changes between calls only
Next ==
  \/ NextCall
  \/ StoreChange
  \/ \E c \in 1..NumContents : Repopulate(c)

Spec == Init /\ [][Next]_vars

\* tables also vanish and come back while a call is running (the data stays
\* the same snapshot)
NextAsync ==
  \/ NextCall
  \/ StoreChange
  \/ RebuildStep

SpecAsync == Init /\ [][NextAsync]_vars

\* ------------------------------------------ fuzzy_join_date on its own inputs
NullableIds(n) == {Null} \cup {Some(k) : k \in 1..n}

\* subject_id values of the left and of the right table: a left row can have a
\* key no right row has, and the other way round for the null key
LeftKeys == {Null, Some(1), Some(2)}

RightKeys == {Null, Some(1)}

LeftDates == {Null, Some(MaxDate \div 2), Some(MaxDate \div 2 + 1)}

RightDates == {Null} \cup {Some(d) : d \in 0..MaxDate}

InitJoin ==
  /\ InitConnection /\ InitNoQuery
  /\ \E n \in 0..MaxLeft :
       \E k \in [1..n -> LeftKeys], d \in [1..n -> LeftDates] :
         left_df = [i \in 1..n |->
                     [subject_id |-> k[i], redcap_event_name |-> i, date |-> d[i]]]
  /\ \E n \in 0..MaxRight :
       \E k \in [1..n -> RightKeys], d \in [1..n -> RightDates] :
         right_df = [i \in 1..n |->
                      [subject_id |-> k[i], date |-> d[i], record_id |-> i]]
  /\ how \in {"left", "inner"}
  /\ joined = Null

ApplyFuzzyJoin ==
  /\ joined = Null
  /\ joined' = Some(FuzzyJoinDate(left_df, right_df, how))
  /\ UNCHANGED <<connVars, storeVars, callVars, queryVars, left_df, right_df, how>>

NextJoin == ApplyFuzzyJoin

SpecJoin == InitJoin /\ [][NextJoin]_vars

\* ------------------------------------- the test-subject query on its own inputs
ConsentRowValues ==
  [subject_id : NullableIds(MaxSubjectId),
   test_subject_boolean : {"true", "false", "null"}]

InitQuery ==
  /\ InitConnection /\ InitNoJoin
  /\ \E n \in 0..MaxSubjectId : subjectRows \in [1..n -> 1..MaxSubjectId]
  /\ \E n \in 0..MaxConsentRows : consentRows \in [1..n -> ConsentRowValues]
  /\ found = Null

RunQuery ==
  /\ found = Null
  /\ found' = Some(TestSubjectQuery(subjectRows, consentRows))
  /\ UNCHANGED <<connVars, storeVars, callVars, joinVars, subjectRows, consentRows>>

NextQuery == RunQuery

SpecQuery == InitQuery /\ [][NextQuery]_vars

\* ================================================================== claims
Finished == pc \in {"done", "raised"}

TimedOut == pc = "raised" /\ exc.type = "DatabaseException"

\* C1: when a named table stays missing and max_polls = N >= 1, the wait makes
\* exactly N existence-check rounds and exactly N-1 sleeps, then raises; no
\* sleep follows the last check.
C1_SleepsBetweenChecksOnly ==
  (Finished /\ max_polls >= 1 /\ ~(Range(table_names) \subseteq store))
    => (TimedOut /\ rounds = max_polls /\ sleeps = max_polls - 1)

\* C2: when every named table exists at call time and max_polls >= 1, the wait
\* returns after exactly one existence-check round, without sleeping, without
\* raising and without changing the connection's state.
C2_ImmediateReturn ==
  (op # "none" /\ pc # "poll" /\ max_polls >= 1 /\ Range(table_names) \subseteq store)
    => /\ pc # "sleep" /\ ~TimedOut
       /\ rounds = 1 /\ sleeps = 0
       /\ op = "wait_for_refresh" => (pc = "done" /\ cache = cacheAtCall
                                      /\ test_subjects = tsAtCall)

C2_Witness ==
  /\ op = "wait_for_refresh" /\ pc = "done"
  /\ Len(table_names) = 2 /\ Range(table_names) \subseteq store
  /\ max_polls = MaxPollsArg /\ rounds = 1 /\ sleeps = 0

\* C3 as stated: the DatabaseException raised when the poll budget is exhausted
\* names exactly the tables still missing at the last check.
C3_NamesOnlyMissing ==
  (TimedOut /\ rounds >= 1) => Range(exc.tables) = lastMissing

\* C3 amended: the DatabaseException raised when the poll budget is exhausted
\* names every table the wait was called with, in call order, so the tables
\* still missing at the last check are among them together with those that exist.
C3_NamesAllRequested ==
  TimedOut => /\ exc.tables = table_names
              /\ exc.max_polls = max_polls
              /\ lastMissing \subseteq Range(exc.tables)

C3_Witness ==
  /\ TimedOut /\ rounds >= 1
  /\ lastMissing # {} /\ lastMissing # Range(table_names)
  /\ exc.tables = table_names

\* C4: a download() that raises leaves every cached attribute as the prior
\* successful download() left it.
C4_NoPartialOverwrite ==
  (op = "download" /\ pc = "raised" /\ cacheAtCall.prom_ataxia # 0)
    => cache = cacheAtCall

\* C7: a get_test_subjects call with use_cache=True on a populated cache
\* returns the cached array with no existence check and no query, whatever the
\* store holds now; any other call checks for the consent table first and, when
\* it returns, has queried the store once and overwritten the cache with the
\* result it returns.
C7_CacheOrRequery ==
  (op = "get_test_subjects" /\ Finished)
    => IF use_cache /\ tsAtCall # Null
       THEN /\ pc = "done" /\ ret = tsAtCall /\ test_subjects = tsAtCall
            /\ rounds = 0 /\ connects = 0 /\ queries = 0
       ELSE /\ rounds >= 1
            /\ pc = "done" =>
                 /\ ConsentTable \in observed /\ queries = 1
                 /\ test_subjects = Some(TestSubjectQuery(SnapshotSubjects(content),
                                                          SnapshotConsent(content)))
                 /\ ret = test_subjects

C7_Witness ==
  /\ op = "get_test_subjects" /\ pc = "done" /\ use_cache
  /\ queries = 0 /\ ret = tsAtCall /\ ret # Null
  /\ ret # Some(TestSubjectQuery(SnapshotSubjects(content), SnapshotConsent(content)))

\* C9 as stated: every table read by download_tables or by the
\* get_test_subjects query (subject and the consent table) was seen to exist by
\* a check round earlier in the same call, and when the wait raises no
\* connection is opened and no table is read.
C9_ReadsWereChecked ==
  /\ readTables \subseteq observed
  /\ TimedOut => (connects = 0 /\ readTables = {})

\* C9 amended: every table read by download_tables, and the consent table read
\* by the get_test_subjects query, was seen to exist by a check round earlier
\* in the same call; the subject table read by that query is not checked.  When
\* the wait raises no connection is opened and no table is read.
C9_ReadsWereCheckedExceptSubject ==
  /\ (readTables \ observed) \subseteq (IF op = "get_test_subjects" THEN {"subject"} ELSE {})
  /\ TimedOut => (connects = 0 /\ readTables = {})

C9_Witness ==
  /\ op = "get_test_subjects" /\ pc = "done" /\ connects = 1
  /\ readTables = QueryTables /\ observed = {ConsentTable}

\* C10: with the store rebuilt while download_tables runs, every named table
\* exists in the store at the moment any of them is read.
C10_NoMidRebuildRead == (op = "download") => ~midRebuildRead

\* ---- fuzzy_join_date
Candidates == Merge(left_df, right_df, how)

\* two candidates have the same hard_on values and the same left date
ShareKeys(c, d) == c.subject_id = d.subject_id /\ c.left_date = d.left_date

AbsOffsetsOfGroup(c) ==
  {Abs(OffsetDays(Candidates[j])[1]) :
     j \in {k \in 1..Len(Candidates) :
              ShareKeys(Candidates[k], c) /\ OffsetDays(Candidates[k]) # Null}}

IsBestOfGroup(c) ==
  IF OffsetDays(c) = Null THEN AbsOffsetsOfGroup(c) = {}
  ELSE \A m \in AbsOffsetsOfGroup(c) : Abs(OffsetDays(c)[1]) <= m

Survivors(c) ==
  {k \in 1..Len(joined[1]) :
     /\ joined[1][k].redcap_event_name = c.redcap_event_name
     /\ joined[1][k].record_id = c.record_id}

KeepsMinimalOffset(c) ==
  /\ Cardinality(Survivors(c)) = (IF IsBestOfGroup(c) THEN 1 ELSE 0)
  /\ \A k \in Survivors(c) : joined[1][k].Offset_Days = OffsetDays(c)

\* C5: within each group of candidate rows with the same subject_id and the
\* same left date, the rows of the result are exactly the candidates whose
\* absolute day offset is the minimum of the group (all of them on a tie, one
\* when it is unique); a candidate with a null offset is kept only when every
\* candidate of its group has a null offset.
C5_MinimalOffsetSurvives ==
  joined # Null =>
    \A i \in 1..Len(Candidates) : KeepsMinimalOffset(Candidates[i])

\* The same statement for the candidates whose subject_id and left date are
\* both non-null, the only ones groupby puts in a group.
KeyedGroupsKeepMinimalOffset ==
  joined # Null =>
    \A i \in 1..Len(Candidates) :
      InGroup(Candidates[i]) => KeepsMinimalOffset(Candidates[i])

\* the result keeps the tie of -2 and +2 of one left row and, for another left
\* row of the same subject with another date, the single candidate at +1
TieAndUniqueMinimumKept ==
  /\ joined # Null /\ Len(joined[1]) = 3
  /\ \E a, b, c \in 1..3 :
       /\ joined[1][a].redcap_event_name = joined[1][b].redcap_event_name
       /\ joined[1][a].Offset_Days = Some(-2)
       /\ joined[1][b].Offset_Days = Some(2)
       /\ joined[1][c].redcap_event_name # joined[1][a].redcap_event_name
       /\ joined[1][c].subject_id = joined[1][a].subject_id
       /\ joined[1][c].Offset_Days = Some(1)

\* of the candidates at -2, +2 and -1 of one left row only the one at -1 is kept
NearestOfThreeKept ==
  /\ joined # Null /\ Len(left_df) = 1
  /\ {OffsetDays(Candidates[i]) : i \in 1..Len(Candidates)} = {Some(-2), Some(2), Some(-1)}
  /\ Len(joined[1]) = 1 /\ joined[1][1].Offset_Days = Some(-1)

\* some left row has two right candidates at the minimal absolute offset
HasTie ==
  \E i, j \in 1..Len(Candidates) :
    /\ i # j /\ SameGroup(Candidates[i], Candidates[j])
    /\ Candidates[i].redcap_event_name = Candidates[j].redcap_event_name
    /\ OffsetDays(Candidates[i]) # Null /\ OffsetDays(Candidates[j]) # Null
    /\ IsBestOfGroup(Candidates[i]) /\ IsBestOfGroup(Candidates[j])

\* C6: with how='left' and nullable columns (null dates and null keys
\* included) every left row is in the result at least once, and the result
\* has as many rows as the left table when no group has a tie at the minimal
\* absolute offset.
C6_LeftRowsPreserved ==
  (joined # Null /\ how = "left") =>
    /\ \A i \in 1..Len(left_df) :
         \E k \in 1..Len(joined[1]) :
           joined[1][k].redcap_event_name = left_df[i].redcap_event_name
    /\ ~HasTie => Len(joined[1]) = Len(left_df)

\* ---- the test-subject query
ConsentRowsOf(sid) ==
  {i \in 1..Len(consentRows) : consentRows[i].subject_id = Some(sid)}

\* C8: the array returned by an uncached get_test_subjects holds exactly the
\* subject ids of the subject table that have no consent row or have a consent
\* row flagged true, each id once; a subject whose consent rows are all
\* unflagged (false or null) is left out.
C8_TestSubjectSet ==
  found # Null =>
    LET items == found[1].items IN
      /\ Range(items) =
           {sid \in Range(subjectRows) :
              \/ ConsentRowsOf(sid) = {}
              \/ \E i \in ConsentRowsOf(sid) :
                   consentRows[i].test_subject_boolean = "true"}
      /\ \A i, j \in 1..Len(items) : i # j => items[i] # items[j]

C8_Witness ==
  /\ found # Null
  /\ Len(subjectRows) = 2 /\ subjectRows[1] = subjectRows[2]
  /\ ConsentRowsOf(subjectRows[1]) # {}
  /\ \E i \in ConsentRowsOf(subjectRows[1]) :
       consentRows[i].test_subject_boolean = "true"
  /\ \E i \in ConsentRowsOf(subjectRows[1]) :
       consentRows[i].test_subject_boolean # "true"
  /\ found[1].items = <<subjectRows[1]>>

====
